---- MODULE Spec2Model ----
(***************************************************************************)
(* The Switcher component of the rio frontend (SwitcherComponent):         *)
(* updateElement / replaceContent and the three callbacks replaceContent   *)
(* defers (exit cleanup timer, measurement frame callback, size-release    *)
(* timer), over a model of the DOM nodes the component touches.            *)
(***************************************************************************)
EXTENDS Integers, Sequences, FiniteSets, TLC

\* ---------------------------------------------------------------- bounds
MaxContainers == 2        \* helper containers created over a run

\* ------------------------------------------------------------ value sets
Null == 0                 \* `null` (ComponentId | null, HTMLElement | null)
Undefined == -1           \* an absent optional field of deltaState
ComponentIds == {1, 2}    \* the child components the registry resolves
TransitionTimes == {0, 1} \* values of transition_time, in seconds
Sizes == {1, 2}           \* values scrollWidth and scrollHeight are read as

\* A value of element.style: no declaration, the string '0', or `${n}px`.
NoDeclaration == [k |-> "none", n |-> 0]
ZeroString == [k |-> "0", n |-> 0]
Px(n) == [k |-> "px", n |-> n]

VARIABLES
    state,                \* this.state: [content, transition_time]
    activeChildContainer, \* this.activeChildContainer: Null or a container index
    cssTransitionTime,    \* '--rio-switcher-transition-time' on this.element
    containers,           \* every helper <div> created so far, by index
    elsewhere,            \* live children the last pass left mounted under another component
    latentComponents,     \* the latent set as the last updateElement left it
    rafQueue,             \* requestAnimationFrame callbacks not yet run
    inFrame,              \* TRUE between two callbacks of the same frame
    timers,               \* setTimeout callbacks not yet run, in setTimeout order
    supersededEarly       \* history: <<container, Y>> for each container replaced by content Y while its own frame callback was pending

vars == <<state, activeChildContainer, cssTransitionTime, containers, elsewhere, latentComponents, rafQueue, inFrame, timers, supersededEarly>>

\* ------------------------------------------------------------ DOM model
\* A node that can sit in a helper container: the live element of component
\* `id`, or a copy of it made by cloneNode(true).
LiveNode(id) == [live |-> TRUE, id |-> id]

cloneNode(id) == [live |-> FALSE, id |-> id]

\* The world a DOM operation works on: the helper containers and the live
\* elements mounted elsewhere.
World(cs, ew) == [containers |-> cs, elsewhere |-> ew]

\* The containers `cs` with the live element of `id` taken out of whichever
\* one holds it.
RECURSIVE WithoutLive(_, _)
WithoutLive(cs, id) ==
    IF cs = <<>> THEN <<>>
    ELSE LET keep(n) == ~(n.live /\ n.id = id)
         IN  <<[Head(cs) EXCEPT !.children = SelectSeq(@, keep)]>> \o WithoutLive(Tail(cs), id)

\* Node.remove() / the implicit removal appendChild performs on a node that
\* already has a parent: the live element of `id` leaves its parent.
DetachLive(w, id) == World(WithoutLive(w.containers, id), w.elsewhere \ {id})

\* parent.appendChild(node): a node has one parent, so a live element is
\* first taken out of wherever it is; a fresh clone has no parent.
appendChild(w, k, node) ==
    LET w1 == IF node.live THEN DetachLive(w, node.id) ELSE w
    IN  [w1 EXCEPT !.containers[k].children = Append(@, node)]

\* style.removeProperty(property): removes the declaration whose CSS property
\* name is `property`. The names of the two declarations the component
\* writes are 'max-width' and 'max-height'; any other name matches nothing.
removeProperty(c, property) ==
    IF property = "max-width" THEN [c EXCEPT !.maxWidth = NoDeclaration]
    ELSE IF property = "max-height" THEN [c EXCEPT !.maxHeight = NoDeclaration]
    ELSE c

\* document.createElement('div') followed by the two style writes and the
\* appendChild to this.element.
NewContainer == [inTree |-> TRUE, activeClass |-> FALSE, maxWidth |-> ZeroString, maxHeight |-> ZeroString, children |-> <<>>]

\* Max with the bug of ignoring the switcher's own size.
MaxIgnoringSelf(a, b) == a

Max(a, b) == IF a >= b THEN a ELSE b

\* ------------------------------------------------- ComponentBase protocol
\* replaceOnlyChild(latentComponents, childId, parentElement): the result is
\* the world and the latent set after the call.
replaceOnlyChild(w, latent, childId, k) ==
    LET kids == w.containers[k].children
        current == IF kids = <<>> THEN Null ELSE Head(kids).id
        \* the current child goes to the latent set and leaves the parent
        w1 == IF current = Null THEN w ELSE [w EXCEPT !.containers[k].children = Tail(@)]
        l1 == IF current = Null THEN latent ELSE latent \cup {current}
    IN  IF childId = Undefined THEN [w |-> w, latent |-> latent]
        ELSE IF childId = Null THEN [w |-> w1, latent |-> l1]
        ELSE IF current = childId /\ Head(kids).live THEN [w |-> w, latent |-> latent]
        ELSE [w |-> appendChild(w1, k, LiveNode(childId)), latent |-> l1 \ {childId}]

\* ------------------------------------------------------ SwitcherComponent
\* componentsById[id]!: the registry resolves an identifier to the live
\* component, wherever its element is mounted.
componentsById(id) == id

\* The state replaceContent and its callbacks read and write, passed along
\* the steps of one call: the DOM world, the latent set, the slot, and the
\* two queues of deferred callbacks.
Frame(w, latent, active, rafs, tms) == [w |-> w, latent |-> latent, active |-> active, rafQueue |-> rafs, timers |-> tms]

\* The closure given to setTimeout in the exit path: it closes over
\* oldChildContainer (target). `sched` records the container that was
\* current when the callback was scheduled.
ExitTimer(k, seconds) == [kind |-> "exit", target |-> k, sched |-> k, delay |-> seconds * 1000]

\* The closure given to setTimeout by the frame callback: it closes over
\* `this` only.
ReleaseTimer(k, seconds) == [kind |-> "release", target |-> Null, sched |-> k, delay |-> 1000 * seconds]

\* oldElementClone with the bug of appending the component's own element.
oldElementLive == LiveNode(componentsById(state.content))

\* The snapshot the exit path appends to the old container.
oldElementClone == cloneNode(componentsById(state.content))

\* OutWithTheOld with the bug of leaving the active class on the old container.
OutWithTheOldKeepsClass(f) ==
    IF f.active = Null THEN f
    ELSE LET k == f.active
             r1 == replaceOnlyChild(f.w, f.latent, Null, k)
             w2 == appendChild(r1.w, k, oldElementClone)
             w3 == [w2 EXCEPT !.containers[k].maxWidth = ZeroString,
                              !.containers[k].maxHeight = ZeroString]
         IN  Frame(w3, r1.latent, Null, f.rafQueue, Append(f.timers, ExitTimer(k, state.transition_time)))

\* OutWithTheOld with the bug of not discarding the old component: the
\* snapshot is appended next to the live child.
OutWithTheOldKeepsChild(f) ==
    IF f.active = Null THEN f
    ELSE LET k == f.active
             w2 == appendChild(f.w, k, oldElementClone)
             w3 == [w2 EXCEPT !.containers[k].activeClass = FALSE,
                              !.containers[k].maxWidth = ZeroString,
                              !.containers[k].maxHeight = ZeroString]
         IN  Frame(w3, f.latent, Null, f.rafQueue, Append(f.timers, ExitTimer(k, state.transition_time)))

\* OutWithTheOld with the bug of taking the snapshot from the node the
\* container holds instead of resolving this.state.content in the registry:
\* a container whose child was moved away gets no snapshot.
OutWithTheOldClonesContained(f) ==
    IF f.active = Null THEN f
    ELSE LET k == f.active
             kids == f.w.containers[k].children
             r1 == replaceOnlyChild(f.w, f.latent, Null, k)
             w2 == IF kids = <<>> THEN r1.w ELSE appendChild(r1.w, k, cloneNode(Head(kids).id))
             w3 == [w2 EXCEPT !.containers[k].activeClass = FALSE,
                              !.containers[k].maxWidth = ZeroString,
                              !.containers[k].maxHeight = ZeroString]
         IN  Frame(w3, r1.latent, Null, f.rafQueue, Append(f.timers, ExitTimer(k, state.transition_time)))

\* OutWithTheOld with the bug of not scheduling the removal of the old
\* container.
OutWithTheOldNoCleanup(f) ==
    IF f.active = Null THEN f
    ELSE LET k == f.active
             r1 == replaceOnlyChild(f.w, f.latent, Null, k)
             w2 == appendChild(r1.w, k, oldElementClone)
             w3 == [w2 EXCEPT !.containers[k].activeClass = FALSE,
                              !.containers[k].maxWidth = ZeroString,
                              !.containers[k].maxHeight = ZeroString]
         IN  Frame(w3, r1.latent, Null, f.rafQueue, f.timers)

\* "Out with the old": the branch taken when activeChildContainer !== null.
OutWithTheOld(f) ==
    IF f.active = Null THEN f
    ELSE LET k == f.active
             r1 == replaceOnlyChild(f.w, f.latent, Null, k)
             w2 == appendChild(r1.w, k, oldElementClone)
             w3 == [w2 EXCEPT !.containers[k].activeClass = FALSE,
                              !.containers[k].maxWidth = ZeroString,
                              !.containers[k].maxHeight = ZeroString]
         IN  Frame(w3, r1.latent, Null, f.rafQueue, Append(f.timers, ExitTimer(k, state.transition_time)))

\* "In with the new": a fresh helper container for a non-null content, with
\* the child attached and the measurement requested for the next frame.
InWithTheNew(f, content) ==
    IF content = Null THEN [f EXCEPT !.active = Null]
    ELSE LET k == Len(f.w.containers) + 1
             w1 == [f.w EXCEPT !.containers = Append(@, NewContainer)]
             r2 == replaceOnlyChild(w1, f.latent, content, k)
             w3 == [r2.w EXCEPT !.containers[k].activeClass = TRUE]
         IN  Frame(w3, r2.latent, k, Append(f.rafQueue, [sched |-> k]), f.timers)

\* replaceContent with the bug of running the enter path before the exit
\* path.
replaceContentEnterFirst(f, content) == OutWithTheOld(InWithTheNew(f, content))

replaceContent(f, content) == InWithTheNew(OutWithTheOld(f), content)

\* ContentChanges with the bug of not comparing with this.state.content.
ContentGiven(deltaContent) == deltaContent # Undefined

\* ContentChanges with the bug of testing the new content for truthiness:
\* a null content never reaches replaceContent.
ContentTruthy(deltaContent) == deltaContent # Undefined /\ deltaContent # Null /\ deltaContent # state.content

\* The guard of updateElement in front of replaceContent.
ContentChanges(deltaContent) == deltaContent # Undefined /\ deltaContent # state.content

\* What the reconciliation pass did to the children before it reached the
\* switcher. It may have moved the switcher's current child into another
\* component (relocated). The live element of the requested child is either
\* unmounted ("fresh"), mounted under another component ("elsewhere"), or
\* was detached from another component in this pass, which put it into the
\* latent set ("latent").
BeforeSwitcher(deltaContent, relocated, source) ==
    LET w0 == World(containers, IF source = "elsewhere" THEN {deltaContent} ELSE {})
        w1 == IF relocated
              THEN [DetachLive(w0, state.content) EXCEPT !.elsewhere = @ \cup {state.content}]
              ELSE w0
    IN  Frame(w1, IF source = "latent" THEN {deltaContent} ELSE {}, activeChildContainer, rafQueue, timers)

Sources == {"fresh", "elsewhere", "latent"}

\* updateElement(deltaState, latentComponents), and the framework storing
\* deltaState into this.state once it returned.
UpdateElement(deltaContent, deltaTT, relocated, source) ==
    /\ ~inFrame
    /\ source # "fresh" => ContentChanges(deltaContent) /\ deltaContent # Null
    /\ relocated => ContentChanges(deltaContent) /\ activeChildContainer # Null
    /\ (ContentChanges(deltaContent) /\ deltaContent # Null) => Len(containers) < MaxContainers
    /\ LET f0 == BeforeSwitcher(deltaContent, relocated, source)
           f1 == IF ContentChanges(deltaContent) THEN replaceContent(f0, deltaContent) ELSE f0
       IN  /\ containers' = f1.w.containers
           /\ elsewhere' = f1.w.elsewhere
           /\ latentComponents' = f1.latent
           /\ activeChildContainer' = f1.active
           /\ rafQueue' = f1.rafQueue
           /\ timers' = f1.timers
    /\ cssTransitionTime' = IF deltaTT # Undefined THEN deltaTT ELSE cssTransitionTime
    /\ state' = [content |-> IF deltaContent # Undefined THEN deltaContent ELSE state.content,
                 transition_time |-> IF deltaTT # Undefined THEN deltaTT ELSE state.transition_time]
    /\ supersededEarly' = IF /\ ContentChanges(deltaContent) /\ deltaContent # Null
                             /\ activeChildContainer # Null
                             /\ \E i \in DOMAIN rafQueue : rafQueue[i].sched = activeChildContainer
                          THEN supersededEarly \cup {<<activeChildContainer, deltaContent>>}
                          ELSE supersededEarly
    /\ UNCHANGED inFrame

\* measure with the bug of not testing the slot: it sizes the newest
\* container even when this.activeChildContainer is null.
measureWithoutNullCheck(f, contentWidth, selfWidth, contentHeight, selfHeight) ==
    LET k == IF f.active = Null THEN Len(f.w.containers) ELSE f.active
        w1 == [f.w EXCEPT !.containers[k].maxWidth = Px(Max(contentWidth, selfWidth)),
                          !.containers[k].maxHeight = Px(Max(contentHeight, selfHeight))]
    IN  Frame(w1, f.latent, f.active, f.rafQueue, Append(f.timers, ReleaseTimer(k, state.transition_time)))

\* measure with the bug of waiting for another frame, instead of giving up,
\* when it finds the slot empty.
measureRetrying(f, contentWidth, selfWidth, contentHeight, selfHeight) ==
    IF f.active = Null THEN [f EXCEPT !.rafQueue = Append(@, [sched |-> Null])]
    ELSE LET k == f.active
             w1 == [f.w EXCEPT !.containers[k].maxWidth = Px(Max(contentWidth, selfWidth)),
                               !.containers[k].maxHeight = Px(Max(contentHeight, selfHeight))]
         IN  Frame(w1, f.latent, k, f.rafQueue, Append(f.timers, ReleaseTimer(k, state.transition_time)))

\* The body of the requestAnimationFrame callback.
measure(f, contentWidth, selfWidth, contentHeight, selfHeight) ==
    IF f.active = Null THEN f
    ELSE LET k == f.active
             targetWidth == Max(contentWidth, selfWidth)
             targetHeight == Max(contentHeight, selfHeight)
             w1 == [f.w EXCEPT !.containers[k].maxWidth = Px(targetWidth),
                               !.containers[k].maxHeight = Px(targetHeight)]
         IN  Frame(w1, f.latent, k, f.rafQueue, Append(f.timers, ReleaseTimer(k, state.transition_time)))

\* One callback of the animation frame. All callbacks requested before a
\* frame run in that frame, in request order, with nothing in between.
AnimationFrame(contentWidth, selfWidth, contentHeight, selfHeight) ==
    /\ rafQueue # <<>>
    /\ LET f0 == Frame(World(containers, elsewhere), latentComponents, activeChildContainer, Tail(rafQueue), timers)
           f1 == measure(f0, contentWidth, selfWidth, contentHeight, selfHeight)
       IN  /\ containers' = f1.w.containers
           /\ timers' = f1.timers
           /\ rafQueue' = f1.rafQueue
    /\ inFrame' = (Len(rafQueue) > 1)
    /\ UNCHANGED <<state, activeChildContainer, cssTransitionTime, elsewhere, latentComponents, supersededEarly>>

\* setTimeout ordering: a timer set earlier with a delay that is not longer
\* is due earlier, so it runs first; otherwise the order depends on the time
\* that passed between the two setTimeout calls.
CanFire(i) == \A j \in 1..(i - 1) : timers[j].delay > timers[i].delay

RemoveAt(s, i) == SubSeq(s, 1, i - 1) \o SubSeq(s, i + 1, Len(s))

\* exitCleanup with the bug of removing this.activeChildContainer instead of
\* the container the closure captured.
exitCleanupCurrent(cs, active, target) == IF active = Null THEN cs ELSE [cs EXCEPT ![active].inTree = FALSE]

\* The body of the exit path's setTimeout callback: oldChildContainer.remove().
exitCleanup(cs, active, target) == [cs EXCEPT ![target].inTree = FALSE]

ExitTimeout(i) ==
    /\ ~inFrame
    /\ i \in DOMAIN timers
    /\ timers[i].kind = "exit"
    /\ CanFire(i)
    /\ containers' = exitCleanup(containers, activeChildContainer, timers[i].target)
    /\ timers' = RemoveAt(timers, i)
    /\ UNCHANGED <<state, activeChildContainer, cssTransitionTime, elsewhere, latentComponents, rafQueue, inFrame, supersededEarly>>

\* release naming the declarations by their CSS property names.
releaseByCssName(cs, active) ==
    IF active = Null THEN cs
    ELSE [cs EXCEPT ![active] = removeProperty(removeProperty(@, "max-width"), "max-height")]

\* The body of the size-release setTimeout callback.
release(cs, active) ==
    IF active = Null THEN cs
    ELSE [cs EXCEPT ![active] = removeProperty(removeProperty(@, "maxWidth"), "maxHeight")]

ReleaseTimeout(i) ==
    /\ ~inFrame
    /\ i \in DOMAIN timers
    /\ timers[i].kind = "release"
    /\ CanFire(i)
    /\ containers' = release(containers, activeChildContainer)
    /\ timers' = RemoveAt(timers, i)
    /\ UNCHANGED <<state, activeChildContainer, cssTransitionTime, elsewhere, latentComponents, rafQueue, inFrame, supersededEarly>>

\* ---------------------------------------------------------- specification
Init ==
    /\ state \in [content : {Null}, transition_time : TransitionTimes]
    /\ activeChildContainer = Null
    /\ cssTransitionTime = Undefined
    /\ containers = <<>>
    /\ elsewhere = {}
    /\ latentComponents = {}
    /\ rafQueue = <<>>
    /\ inFrame = FALSE
    /\ timers = <<>>
    /\ supersededEarly = {}

Next ==
    \/ \E deltaContent \in ComponentIds \cup {Null, Undefined}, deltaTT \in TransitionTimes \cup {Undefined}, relocated \in BOOLEAN, source \in Sources :
          UpdateElement(deltaContent, deltaTT, relocated, source)
    \/ \E contentWidth \in Sizes, selfWidth \in Sizes, contentHeight \in Sizes, selfHeight \in Sizes :
          AnimationFrame(contentWidth, selfWidth, contentHeight, selfHeight)
    \/ \E i \in DOMAIN timers : ExitTimeout(i)
    \/ \E i \in DOMAIN timers : ReleaseTimeout(i)

Spec == Init /\ [][Next]_vars

\* The event loop runs a pending callback: a requestAnimationFrame callback
\* at the next frame, a setTimeout callback once it is due.
RunCallback ==
    \/ \E contentWidth \in Sizes, selfWidth \in Sizes, contentHeight \in Sizes, selfHeight \in Sizes :
          AnimationFrame(contentWidth, selfWidth, contentHeight, selfHeight)
    \/ \E i \in DOMAIN timers : ExitTimeout(i)
    \/ \E i \in DOMAIN timers : ReleaseTimeout(i)

\* The browser keeps rendering frames and time keeps passing, so a callback
\* that is pending does not stay pending forever.
FairSpec == Init /\ [][Next]_vars /\ WF_vars(RunCallback)

\* ------------------------------------------------------- derived notions
\* The helper containers that are children of this.element.
InTree == {k \in DOMAIN containers : containers[k].inTree}

\* No deferred callback is pending.
Quiescent == rafQueue = <<>> /\ timers = <<>>

\* The step runs one requestAnimationFrame callback (nothing else takes the
\* head off rafQueue).
FrameStep == rafQueue # <<>> /\ rafQueue' = Tail(rafQueue)

\* The step runs the setTimeout callback timers[i] (nothing else takes a
\* timer off the list).
TimerStep(i) == i \in DOMAIN timers /\ timers' = RemoveAt(timers, i)

ExitStep(i) == TimerStep(i) /\ timers[i].kind = "exit"

ReleaseStep(i) == TimerStep(i) /\ timers[i].kind = "release"

\* The step is an updateElement call (the callbacks each take a callback off
\* a queue, updateElement never does).
UpdateStep == Len(rafQueue') >= Len(rafQueue) /\ Len(timers') >= Len(timers)

HasNoSizeConstraint(c) == c.maxWidth = NoDeclaration /\ c.maxHeight = NoDeclaration

PendingExits == {i \in DOMAIN timers : timers[i].kind = "exit"}

\* ------------------------------------------------------------------ C1
\* C1 (superseding safety): when a container holding X was replaced by
\* content Y while its own frame callback was still pending, and no later
\* swap followed, then once no callback is pending exactly one container is
\* under the switcher root, it is activeChildContainer, it holds the live
\* child Y, and the container created for X is out of the tree.
C1_SupersedingSafety ==
    \A p \in supersededEarly :
        (Quiescent /\ activeChildContainer = p[1] + 1) =>
            /\ InTree = {activeChildContainer}
            /\ containers[activeChildContainer].children = <<LiveNode(p[2])>>
            /\ ~containers[p[1]].inTree

C1_Witness ==
    /\ Quiescent
    /\ \E p \in supersededEarly : activeChildContainer = p[1] + 1

\* ------------------------------------------------------------------ C2
\* C2 (stale-callback discipline): a frame callback or a release timer that
\* fires when activeChildContainer is no longer the container that was
\* current when it was scheduled changes no container and schedules nothing.
C2_StaleCallbacksDoNothing ==
    [][/\ (FrameStep /\ Head(rafQueue).sched # activeChildContainer) =>
              (containers' = containers /\ timers' = timers)
       /\ \A i \in DOMAIN timers :
              (ReleaseStep(i) /\ timers[i].sched # activeChildContainer) =>
                  containers' = containers]_vars

\* ------------------------------------------------------------------ C3
\* C3 (single active container): among the containers under the switcher
\* root, the one activeChildContainer references is the only one with the
\* active class, and it holds exactly the live child of the declared
\* content; every other container in the tree has a pending exit cleanup
\* and holds exactly one node, a snapshot.
C3_SingleActiveContainer ==
    /\ \A k \in InTree : containers[k].activeClass <=> (k = activeChildContainer)
    /\ activeChildContainer # Null =>
           /\ activeChildContainer \in InTree
           /\ state.content # Null
           /\ containers[activeChildContainer].children = <<LiveNode(state.content)>>
    /\ \A k \in InTree \ {activeChildContainer} :
           /\ \E i \in PendingExits : timers[i].target = k
           /\ Len(containers[k].children) = 1
           /\ ~containers[k].children[1].live

C3_Witness ==
    /\ activeChildContainer # Null
    /\ InTree \ {activeChildContainer} # {}

\* ------------------------------------------------------------------ C4
\* C4 as stated (null-content teardown): a swap to null empties the slot at
\* once, and when the exit cleanup timer of that swap has fired, no
\* container is left under the switcher root.
C4_NullTeardownAsStated ==
    [][/\ (UpdateStep /\ state.content # Null /\ state'.content = Null) =>
              activeChildContainer' = Null
       /\ \A i \in DOMAIN timers :
              (ExitStep(i) /\ activeChildContainer = Null /\ timers[i].target = Len(containers)) =>
                  InTree' = {}]_vars

\* C4 as amended: a swap to null empties the slot at once and schedules the
\* cleanup of the container that held X; when that timer fires, that
\* container leaves the tree, and once no exit cleanup is pending no
\* container is left under the root, whatever frame callback or release
\* timer is still pending.
C4_NullTeardown ==
    [][/\ (UpdateStep /\ state.content # Null /\ state'.content = Null) =>
              /\ activeChildContainer' = Null
              /\ activeChildContainer # Null
              /\ timers' = Append(timers, ExitTimer(activeChildContainer, state.transition_time))
       /\ \A i \in DOMAIN timers :
              (ExitStep(i) /\ activeChildContainer = Null) =>
                  /\ ~containers'[timers[i].target].inTree
                  /\ (PendingExits = {i} => InTree' = {})]_vars

\* The teardown has completed while the frame callback of X's entry is
\* still pending.
C4_Witness ==
    /\ state.content = Null
    /\ activeChildContainer = Null
    /\ containers # <<>>
    /\ InTree = {}
    /\ rafQueue # <<>>

\* ------------------------------------------------------------------ C5
\* C5 (size convergence): when the release timer scheduled for the
\* container that is still the active one fires, that container carries no
\* maximum-width and no maximum-height declaration afterwards.
C5_SizeConvergence ==
    [][\A i \in DOMAIN timers :
          (ReleaseStep(i) /\ activeChildContainer # Null /\ timers[i].sched = activeChildContainer) =>
              HasNoSizeConstraint(containers'[activeChildContainer])]_vars

\* ------------------------------------------------------------------ C6
\* C6 (idempotent no-op): an updateElement that leaves the declared content
\* as it was (content absent, or equal to state.content) changes no
\* container, leaves activeChildContainer alone and schedules nothing.
C6_IdempotentNoOp ==
    [][(UpdateStep /\ state'.content = state.content) =>
          UNCHANGED <<containers, activeChildContainer, rafQueue, timers>>]_vars

\* Such a call has run while a release timer was pending: only one
\* container was ever made, it is still active, and transition_time is no
\* longer the one the pending timer was set with.
C6_Witness ==
    /\ Len(containers) = 1
    /\ activeChildContainer = 1
    /\ \E i \in DOMAIN timers : timers[i].kind = "release" /\ timers[i].delay # 1000 * state.transition_time

\* ------------------------------------------------------------------ C7
\* The position of container k on the two paths: 1 ActivePendingMeasure,
\* 2 Growing, 3 Settled (enter path, while k is the active container);
\* 4 Shrinking, 5 Removed (exit path).
Phase(cs, active, k) ==
    IF ~cs[k].inTree THEN 5
    ELSE IF k # active THEN 4
    ELSE IF HasNoSizeConstraint(cs[k]) THEN 3
    ELSE IF cs[k].maxWidth = ZeroString /\ cs[k].maxHeight = ZeroString THEN 1
    ELSE 2

C8_ExitCleanupOwnContainer ==
    [][\A i \in DOMAIN timers :
          ExitStep(i) =>
              /\ timers[i].target = timers[i].sched
              /\ containers' = [containers EXCEPT ![timers[i].sched].inTree = FALSE]
              /\ activeChildContainer' = activeChildContainer]_vars

\* The cleanup of a superseded container has run while its successor is the
\* active container.
C8_Witness ==
    \E p \in supersededEarly :
        /\ ~containers[p[1]].inTree
        /\ activeChildContainer = p[1] + 1
        /\ containers[activeChildContainer].inTree

\* ------------------------------------------------------------------ C9
\* C9 (zero transition duration): with transition_time = 0, once every
\* callback has run, no exiting container is left under the root and the
\* container left carries no size constraint.
C9_ZeroTransitionTime ==
    (Quiescent /\ state.transition_time = 0 /\ cssTransitionTime \in {Undefined, 0}) =>
        \A k \in InTree : k = activeChildContainer /\ HasNoSizeConstraint(containers[k])

\* ----------------------------------------------------------------- C10
\* The places the live element of component `id` is mounted at.
Mounts(id) == {<<k, j>> \in (DOMAIN containers) \X (1..2) : j \in DOMAIN containers[k].children /\ containers[k].children[j] = LiveNode(id)}

MountedAtMostOnce == \A id \in ComponentIds : Cardinality(Mounts(id)) + (IF id \in elsewhere THEN 1 ELSE 0) <= 1

SnapshotsAreCopies == \A k \in DOMAIN containers : k # activeChildContainer => \A j \in DOMAIN containers[k].children : ~containers[k].children[j].live

\* C10 (reuse across swap): a replaceContent(id) that finds the live
\* instance of id in the latent set attaches that instance into the new
\* container and takes it out of the latent set; after every step a live
\* instance is mounted in at most one place and every container but the
\* active one holds copies only.
C10_ReuseAcrossSwap ==
    [][/\ (state'.content # state.content /\ state'.content # Null) =>
              \A tt \in TransitionTimes \cup {Undefined}, relocated \in BOOLEAN :
                  UpdateElement(state'.content, tt, relocated, "latent") =>
                      /\ activeChildContainer' = Len(containers) + 1
                      /\ containers'[activeChildContainer'].children = <<LiveNode(state'.content)>>
                      /\ state'.content \notin latentComponents'
       /\ MountedAtMostOnce'
       /\ SnapshotsAreCopies']_vars

\* The live instance of the declared content sits in the active container
\* while a copy of it is still shrinking in the container it left.
C10_Witness ==
    /\ activeChildContainer # Null
    /\ containers[activeChildContainer].children = <<LiveNode(state.content)>>
    /\ \E k \in InTree \ {activeChildContainer} : containers[k].children = <<cloneNode(state.content)>>

\* ----------------------------------------------------------------- C11
\* C11 (target size): a frame callback that acts on a container, having
\* measured content (cw, ch) and switcher (sw, sh), writes on it a maximum
\* width of the larger of cw and sw and a maximum height of the larger of
\* ch and sh, both in px.
C11_TargetSize ==
    [][\A cw \in Sizes, sw \in Sizes, ch \in Sizes, sh \in Sizes :
          (activeChildContainer # Null /\ AnimationFrame(cw, sw, ch, sh)) =>
              LET c == containers'[activeChildContainer]
              IN  /\ c.maxWidth.k = "px" /\ c.maxHeight.k = "px"
                  /\ c.maxWidth.n \in {cw, sw} /\ c.maxWidth.n >= cw /\ c.maxWidth.n >= sw
                  /\ c.maxHeight.n \in {ch, sh} /\ c.maxHeight.n >= ch /\ c.maxHeight.n >= sh]_vars

\* The callback wrote a width and a height that differ, each the larger of
\* two measurements (the smallest size is written only when both are it).
C11_Witness ==
    /\ activeChildContainer # Null
    /\ containers[activeChildContainer].maxWidth = Px(2)
    /\ containers[activeChildContainer].maxHeight = Px(1)

\* ----------------------------------------------------------------- C12
\* C12 (ordering inside one swap): in a replaceContent call the exit path
\* is complete when the enter path begins: at that point the slot is null,
\* the cleanup of the old container is scheduled, and no new container and
\* no frame callback exist yet. So after the call the old container holds
\* the snapshot, has lost the active class and is shrunk, the new container
\* is a different, later one that the exit path did not touch, and no
\* pending exit cleanup ever targets the container in the slot.
C12_ExitBeforeEnter ==
    [][/\ (state'.content # state.content) =>
              LET old == activeChildContainer
                  new == Len(containers) + 1
              IN  /\ \A mid \in {OutWithTheOld(BeforeSwitcher(state'.content, FALSE, "fresh"))} :
                         /\ mid.active = Null
                         /\ Len(mid.w.containers) = Len(containers)
                         /\ mid.rafQueue = rafQueue
                         /\ old # Null => /\ Len(mid.timers) = Len(timers) + 1
                                          /\ mid.timers[Len(mid.timers)].target = old
                  /\ old # Null =>
                         /\ containers'[old].children = <<cloneNode(state.content)>>
                         /\ ~containers'[old].activeClass
                         /\ containers'[old].maxWidth = ZeroString
                         /\ containers'[old].maxHeight = ZeroString
                         /\ Len(timers') = Len(timers) + 1
                         /\ timers'[Len(timers')].kind = "exit"
                         /\ timers'[Len(timers')].target = old
                         /\ activeChildContainer' # old
                  /\ state'.content = Null =>
                         /\ activeChildContainer' = Null
                         /\ Len(containers') = Len(containers)
                  /\ state'.content # Null =>
                         /\ activeChildContainer' = new
                         /\ Len(containers') = new
                         /\ containers'[new].activeClass
                         /\ containers'[new].children = <<LiveNode(state'.content)>>
                         /\ rafQueue' = Append(rafQueue, [sched |-> new])
       /\ \A i \in DOMAIN timers' :
              timers'[i].kind = "exit" => timers'[i].target # activeChildContainer']_vars

\* A swap from one child to another has just returned: the old container's
\* cleanup and the new container's frame callback are both pending.
C12_Witness ==
    /\ activeChildContainer # Null
    /\ \E k \in InTree \ {activeChildContainer} :
           /\ k < activeChildContainer
           /\ \E i \in DOMAIN timers : timers[i].kind = "exit" /\ timers[i].target = k
    /\ \E j \in DOMAIN rafQueue : rafQueue[j].sched = activeChildContainer

\* ----------------------------------------------------------------- C13
\* C13 (exit cleanup delay): the cleanup of the old container is set to run
\* after the transition_time in force once the updateElement call that made
\* the swap is done (the one it wrote to the element before the swap), and
\* the release timer a frame callback sets uses the transition_time in
\* force at that frame.
C13_ExitCleanupDelay ==
    [][/\ (state'.content # state.content /\ activeChildContainer # Null) =>
              /\ timers'[Len(timers')].kind = "exit"
              /\ timers'[Len(timers')].delay = 1000 * state'.transition_time
       /\ (FrameStep /\ activeChildContainer # Null) =>
              /\ timers'[Len(timers')].kind = "release"
              /\ timers'[Len(timers')].delay = 1000 * state'.transition_time]_vars

\* ----------------------------------------------------------------- C14
\* C14 (measurement after the slot was emptied): a frame callback or a
\* release timer that fires while the slot is null changes no container,
\* writes no size constraint and schedules no timer; the slot and the
\* declared state stay as they are.
C14_EmptySlotCallbacksDoNothing ==
    [][/\ (FrameStep /\ activeChildContainer = Null) =>
              /\ containers' = containers
              /\ timers' = timers
              /\ activeChildContainer' = Null
              /\ state' = state
       /\ \A i \in DOMAIN timers :
              (ReleaseStep(i) /\ activeChildContainer = Null) =>
                  /\ containers' = containers
                  /\ timers' = RemoveAt(timers, i)
                  /\ rafQueue' = rafQueue
                  /\ activeChildContainer' = Null
                  /\ state' = state]_vars

\* A frame callback has just run while the slot was null (the frame has
\* a further callback to run), and the containers that were emptied are
\* still as the exit path left them.
C14_Witness ==
    /\ inFrame
    /\ activeChildContainer = Null
    /\ \A k \in InTree : containers[k].maxWidth = ZeroString /\ containers[k].maxHeight = ZeroString
    /\ \A i \in DOMAIN timers : timers[i].kind = "exit"
    /\ InTree # {}

\* ----------------------------------------------------------------- C15
\* The exit cleanups pending for container k.
ExitsOf(tms, k) == {i \in DOMAIN tms : tms[i].kind = "exit" /\ tms[i].target = k}

\* The live element of component `id` sits in none of the containers `cs`.
LiveNowhere(cs, id) == \A k \in DOMAIN cs : \A j \in DOMAIN cs[k].children : cs[k].children[j] # LiveNode(id)

\* C15 (exit of a mounted child): when a swap finds its outgoing child
\* still mounted in the slot's container, then after the call that
\* container holds exactly a copy of the child, the live child is in no
\* container and is in the latent set, the container has no active class
\* and both its size constraints are '0', and exactly one exit cleanup is
\* pending for it.
C15_ExitOfMountedChild ==
    [][(/\ state'.content # state.content
        /\ activeChildContainer # Null
        /\ containers[activeChildContainer].children = <<LiveNode(state.content)>>
        /\ state.content \notin elsewhere') =>
           LET old == activeChildContainer
           IN  /\ containers'[old].children = <<cloneNode(state.content)>>
               /\ LiveNowhere(containers', state.content)
               /\ state.content \in latentComponents'
               /\ ~containers'[old].activeClass
               /\ containers'[old].maxWidth = ZeroString
               /\ containers'[old].maxHeight = ZeroString
               /\ containers'[old].inTree
               /\ Cardinality(ExitsOf(timers', old)) = 1]_vars

\* An exiting container with its snapshot and its one pending cleanup, the
\* live child it held being in the latent set.
C15_Witness ==
    \E k \in InTree \ {activeChildContainer}, id \in ComponentIds :
        /\ containers[k].children = <<cloneNode(id)>>
        /\ id \in latentComponents
        /\ LiveNowhere(containers, id)
        /\ Cardinality(ExitsOf(timers, k)) = 1

\* ----------------------------------------------------------------- C16
\* C16 (exit of an already relocated child): when the pass moved the
\* outgoing child to another parent before it reached the switcher, the
\* swap still puts a copy of the child named by state.content into the old
\* container, removes the active class, shrinks the container and sets one
\* exit cleanup for it; the live child stays mounted under its new parent
\* and is not put into the latent set.
C16_ExitOfRelocatedChild ==
    [][(state'.content # state.content /\ activeChildContainer # Null) =>
           \A tt \in {Undefined, state'.transition_time}, source \in Sources :
               UpdateElement(state'.content, tt, TRUE, source) =>
                   LET old == activeChildContainer
                   IN  /\ containers'[old].children = <<cloneNode(state.content)>>
                       /\ ~containers'[old].activeClass
                       /\ containers'[old].maxWidth = ZeroString
                       /\ containers'[old].maxHeight = ZeroString
                       /\ containers'[old].inTree
                       /\ Cardinality(ExitsOf(timers', old)) = 1
                       /\ state.content \in elsewhere'
                       /\ state.content \notin latentComponents'
                       /\ LiveNowhere(containers', state.content)]_vars

\* An exiting container holds the copy of a child that is mounted under
\* another component and is not latent.
C16_Witness ==
    \E k \in InTree \ {activeChildContainer}, id \in ComponentIds :
        /\ containers[k].children = <<cloneNode(id)>>
        /\ id \in elsewhere
        /\ id \notin latentComponents
        /\ ExitsOf(timers, k) # {}

\* ----------------------------------------------------------------- C17
\* C17 (slot/content agreement): between updateElement calls the slot is
\* occupied exactly when the declared content is a component identifier,
\* and then the slot's container holds the live element of that very
\* component; so an exit path that runs finds in state.content the
\* identifier of the child mounted in the container it is exiting.
C17_SlotContentAgreement ==
    /\ (activeChildContainer # Null) <=> (state.content # Null)
    /\ activeChildContainer # Null =>
           /\ state.content \in ComponentIds
           /\ activeChildContainer \in InTree
           /\ containers[activeChildContainer].children = <<LiveNode(componentsById(state.content))>>

\* The slot holds the second child declared in a row, the first one's
\* container having gone through the exit path with its own identifier.
C17_Witness ==
    /\ activeChildContainer = 2
    /\ state.content \in ComponentIds
    /\ containers[1].children # <<>>
    /\ Head(containers[1].children).id \in ComponentIds \ {state.content}
    /\ ~Head(containers[1].children).live

\* ----------------------------------------------------------------- C18
\* Every container under the root but the one in the slot has exactly one
\* pending exit cleanup, and every pending exit cleanup is for such a
\* container.
ExitingHaveOneCleanup ==
    /\ \A k \in InTree \ {activeChildContainer} : Cardinality(ExitsOf(timers, k)) = 1
    /\ \A i \in PendingExits : timers[i].target \in InTree \ {activeChildContainer}

TreeCount == Cardinality(InTree) = Cardinality(PendingExits) + (IF activeChildContainer # Null THEN 1 ELSE 0)

\* A container that left the tree stays out, a container that left the slot
\* never gets back into it, and an exit cleanup that runs removes a
\* container that was still in the tree.
RemovedOnce ==
    /\ \A k \in DOMAIN containers : ~containers[k].inTree => ~containers'[k].inTree
    /\ \A k \in DOMAIN containers : k # activeChildContainer => k # activeChildContainer'
    /\ \A i \in DOMAIN timers : ExitStep(i) => containers[timers[i].target].inTree /\ ~containers'[timers[i].target].inTree

\* C18 (no lingering wrapper): in every state each container under the
\* root other than the slot's has exactly one pending exit cleanup, so the
\* containers under the root number the pending exit cleanups plus one if
\* the slot is occupied; a container is removed at most once and, once
\* superseded, never returns to the slot; and, the event loop running
\* pending callbacks, no container stays superseded and under the root
\* forever, that is, every superseded container is eventually removed.
C18_NoLingeringWrapper ==
    /\ [](ExitingHaveOneCleanup /\ TreeCount)
    /\ [][RemovedOnce]_vars
    /\ \A k \in 1..MaxContainers : []<>(k \notin InTree \/ k = activeChildContainer)

\* One superseded container has been removed by its cleanup while another
\* one is still waiting for its own.
C18_Witness ==
    /\ \E k \in DOMAIN containers : ~containers[k].inTree
    /\ \E k \in InTree \ {activeChildContainer} : Cardinality(ExitsOf(timers, k)) = 1

\* ----------------------------------------------------------------- C19
\* What one step may add to the pending callbacks: a swap adds at most one
\* timer, an exit cleanup, and at most one frame callback; any other step
\* adds no frame callback, and adds a timer only when it is a frame
\* callback, which adds at most one, a release timer.
SchedulesAtMostOne ==
    /\ Len(timers') <= Len(timers) + 1
    /\ Len(rafQueue') <= Len(rafQueue) + 1
    /\ state'.content # state.content =>
           /\ SubSeq(timers', 1, Len(timers)) = timers
           /\ \A i \in DOMAIN timers' \ DOMAIN timers : timers'[i].kind = "exit"
           /\ SubSeq(rafQueue', 1, Len(rafQueue)) = rafQueue
    /\ state'.content = state.content =>
           /\ Len(rafQueue') <= Len(rafQueue)
           /\ Len(timers') > Len(timers) =>
                  /\ FrameStep
                  /\ timers'[Len(timers')].kind = "release"

\* With nothing pending and no swap, nothing changes in the tree or the slot
\* and nothing becomes pending.
QuiescentStays ==
    (Quiescent /\ state'.content = state.content) =>
        /\ containers' = containers
        /\ activeChildContainer' = activeChildContainer
        /\ Quiescent'

\* C19 (quiescence): every step schedules at most one callback of a kind
\* (a swap one exit cleanup and one frame callback, a frame callback one
\* release timer, nothing else any); once nothing is pending the tree and
\* the slot change only by a further swap; and, the swaps being finitely
\* many and the event loop running pending callbacks, from some point on
\* no callback is pending.
C19_Quiescence ==
    /\ [][SchedulesAtMostOne /\ QuiescentStays]_vars
    /\ <>[]Quiescent

\* Nothing is pending after two swaps, and only the slot's container, if
\* any, is left under the root.
C19_Witness ==
    /\ Quiescent
    /\ Len(containers) >= 2
    /\ InTree \subseteq {activeChildContainer}

====
